---- MODULE Spec2Model ----
(***************************************************************************)
(* A model of the blog application's engagement code: the like toggle      *)
(* (views.like_post over models.Like), the paywall of the post detail      *)
(* view, subscription activation, comment creation with its broadcast to   *)
(* the post's channel group, and post creation with its derived slug.      *)
(*                                                                         *)
(* Every view is a request process whose steps are its database            *)
(* statements: the views run outside any transaction, so two requests may  *)
(* interleave between any two statements.                                  *)
(***************************************************************************)
EXTENDS Naturals, Integers, Sequences, FiniteSets

VARIABLES
    posts,        \* the Post table: a set of rows
    today,        \* date.today(), as a day number
    likes,        \* the Like table: a set of rows [id, post, user]
    likeSeq,      \* the Like table's next auto-increment id
    lpc,          \* like_post request -> its position
    lreq,         \* like_post request -> [user, slug]
    lloc,         \* like_post request -> its locals [post, like, liked]
    lresp,        \* like_post request -> its response
    lstarted,     \* number of like_post requests received
    overlapped,   \* history: the (user, slug) pairs two requests overlapped on
    initLikes,    \* history: the Like table at the start
    profiles,     \* the Profile table: user -> [exists, is_subscribed, subscription_end_date]
    view,         \* the context PostDetailView last rendered
    lastOp,       \* history: the process_subscription call that has just run
    actDay,       \* history: user -> the day of the user's last process_subscription
    comments,     \* the Comment table: a set of rows
    commentSeq,   \* the Comment table's next auto-increment id
    cpc,          \* add_comment request -> its position
    creq,         \* add_comment request -> [user, slug, body, parent]
    cloc,         \* add_comment request -> its locals [post, cid] and its response status
    cstarted,     \* number of add_comment requests received
    groups,       \* channel layer: group name -> the connections in the group
    inbox,        \* connection -> the events delivered to it
    published,    \* the group_send calls made, in order
    postSeq,      \* the Post table's next auto-increment id
    presult       \* the outcome of the last PostCreateView request

likeVars == <<likes, likeSeq, lpc, lreq, lloc, lresp, lstarted, overlapped, initLikes>>

viewVars == <<profiles, view, lastOp, actDay>>

commentVars == <<comments, commentSeq, cpc, creq, cloc, cstarted, groups, inbox, published>>

postVars == <<postSeq, presult>>

vars == <<posts, today, likeVars, viewVars, commentVars, postVars>>

\* What like_post leaves alone.
likeFrame == <<posts, today, viewVars, commentVars, postVars>>

\* What the post detail view and process_subscription leave alone.
viewFrame == <<posts, likeVars, commentVars, postVars>>

\* What add_comment and the channel layer leave alone.
commentFrame == <<posts, today, likeVars, viewVars, postVars>>

\* What PostCreateView leaves alone.
postFrame == <<today, likeVars, viewVars, commentVars>>

----------------------------------------------------------------------------
(* Bounds *)

NumLikeReqs == 3
MaxDay == 31
NumCommentReqs == 2
MaxPosts == 2
MaxTitleLen == 2
MaxPostDay == 1

----------------------------------------------------------------------------
(* Users and the seeded Post table *)

Users == {"u1", "u2"}

Chars == <<"k", "l", "m", "n", "o", "p", "q">>

\* A text of n characters, no two neighbours alike.
Text(n) == [i \in 1..n |-> Chars[(i % 7) + 1]]

\* A seeded row; its title is the text of its slug.
PostRow(id, slug, author, access, body, date) ==
    [id |-> id, title |-> slug, slug |-> slug, author |-> author,
     access_level |-> access, body |-> body, publish_date |-> date]

\* Four published posts. The last two share a slug on different publish
\* dates, which unique_for_date allows.
SeedPosts ==
    { PostRow(1, <<"a">>, "u1", "free", Text(5), 0),
      PostRow(2, <<"b">>, "u1", "premium", Text(9), 0),
      PostRow(3, <<"c">>, "u2", "premium", Text(7), 0),
      PostRow(4, <<"c">>, "u2", "free", Text(7), 1) }

\* The slugs like_post is requested with: two posts, and the shared slug.
LikeSlugs == { <<"a">>, <<"b">>, <<"c">> }

\* get_object_or_404(Post, slug=slug): Http404 when no row matches,
\* MultipleObjectsReturned (a 500) when several do.
GetObjectOr404(slug) ==
    LET m == {p \in posts : p.slug = slug} IN
    IF m = {} THEN [status |-> 404, post |-> 0]
    ELSE IF Cardinality(m) > 1 THEN [status |-> 500, post |-> 0]
    ELSE [status |-> 200, post |-> (CHOOSE p \in m : TRUE).id]

----------------------------------------------------------------------------
(* like_post *)

LikeReqs == 1..NumLikeReqs

NoReq == [user |-> "none", slug |-> <<>>]
NoLoc == [post |-> 0, like |-> 0, liked |-> FALSE]
NoResp == [status |-> 0, liked |-> FALSE, count |-> 0, rows |-> 0]

LikesOf(p, u) == {l \in likes : l.post = p /\ l.user = u}

UniqueTogetherOff(p, u) == TRUE

\* Meta.unique_together = ('post', 'user'): the table's unique constraint,
\* which an INSERT of (p, u) passes only when no row holds the pair.
UniqueTogether(p, u) == LikesOf(p, u) = {}

LikesCountAll(p) == Cardinality(likes)

\* post.likes.count()
LikesCount(p) == Cardinality({l \in likes : l.post = p})

InFlight(r) == lpc[r] \notin {"new", "done"}

\* The request arrives: login_required and require_POST have passed, and
\* the post is looked up by its slug.
LikeStart(r, u, slug) ==
    /\ lpc[r] = "new"
    /\ r = lstarted + 1
    /\ lstarted' = r
    /\ lreq' = [lreq EXCEPT ![r] = [user |-> u, slug |-> slug]]
    /\ overlapped' =
         IF \E q \in LikeReqs : InFlight(q) /\ lreq[q] = [user |-> u, slug |-> slug]
         THEN overlapped \cup {<<u, slug>>} ELSE overlapped
    /\ LET got == GetObjectOr404(slug) IN
       IF got.status = 200
       THEN /\ lpc' = [lpc EXCEPT ![r] = "get"]
            /\ lloc' = [lloc EXCEPT ![r].post = got.post]
            /\ lresp' = lresp
       ELSE /\ lpc' = [lpc EXCEPT ![r] = "done"]
            /\ lresp' = [lresp EXCEPT ![r].status = got.status]
            /\ lloc' = lloc
    /\ UNCHANGED <<likes, likeSeq, initLikes, likeFrame>>

\* get_or_create, first statement: self.get(post=post, user=request.user).
LikeGet(r) ==
    /\ lpc[r] = "get"
    /\ LET m == LikesOf(lloc[r].post, lreq[r].user) IN
       IF m = {}
       THEN /\ lpc' = [lpc EXCEPT ![r] = "create"]
            /\ UNCHANGED <<lloc, lresp>>
       ELSE IF Cardinality(m) > 1
       THEN /\ lpc' = [lpc EXCEPT ![r] = "done"]
            /\ lresp' = [lresp EXCEPT ![r].status = 500]
            /\ lloc' = lloc
       ELSE /\ lpc' = [lpc EXCEPT ![r] = "delete"]
            /\ lloc' = [lloc EXCEPT ![r].like = (CHOOSE l \in m : TRUE).id]
            /\ lresp' = lresp
    /\ UNCHANGED <<likes, likeSeq, lreq, lstarted, overlapped, initLikes, likeFrame>>

\* get_or_create, on DoesNotExist: self.create(...) inside a savepoint. The
\* INSERT raises IntegrityError when the unique constraint rejects it.
LikeCreate(r) ==
    /\ lpc[r] = "create"
    /\ IF UniqueTogether(lloc[r].post, lreq[r].user)
       THEN /\ likes' = likes \cup
                  {[id |-> likeSeq, post |-> lloc[r].post, user |-> lreq[r].user]}
            /\ likeSeq' = likeSeq + 1
            /\ lloc' = [lloc EXCEPT ![r].like = likeSeq, ![r].liked = TRUE]
            /\ lpc' = [lpc EXCEPT ![r] = "count"]
       ELSE /\ lpc' = [lpc EXCEPT ![r] = "reget"]
            /\ UNCHANGED <<likes, likeSeq, lloc>>
    /\ UNCHANGED <<lreq, lresp, lstarted, overlapped, initLikes, likeFrame>>

\* get_or_create, on IntegrityError: self.get(...) again; the error is
\* raised again when the row has gone in between.
LikeReget(r) ==
    /\ lpc[r] = "reget"
    /\ LET m == LikesOf(lloc[r].post, lreq[r].user) IN
       IF m = {}
       THEN /\ lpc' = [lpc EXCEPT ![r] = "done"]
            /\ lresp' = [lresp EXCEPT ![r].status = 500]
            /\ lloc' = lloc
       ELSE /\ lpc' = [lpc EXCEPT ![r] = "delete"]
            /\ lloc' = [lloc EXCEPT ![r].like = (CHOOSE l \in m : TRUE).id]
            /\ lresp' = lresp
    /\ UNCHANGED <<likes, likeSeq, lreq, lstarted, overlapped, initLikes, likeFrame>>

\* if not created: like.delete(); liked=False. The DELETE names the row by
\* its id and removes nothing when the row is gone already.
LikeDelete(r) ==
    /\ lpc[r] = "delete"
    /\ likes' = {l \in likes : l.id # lloc[r].like}
    /\ lloc' = [lloc EXCEPT ![r].liked = FALSE]
    /\ lpc' = [lpc EXCEPT ![r] = "count"]
    /\ UNCHANGED <<likeSeq, lreq, lresp, lstarted, overlapped, initLikes, likeFrame>>

\* return JsonResponse({'liked': liked, 'count': post.likes.count()}).
\* rows is history: the rows the table holds for the post at this moment.
LikeRespond(r) ==
    /\ lpc[r] = "count"
    /\ likes' = likes
    /\ lresp' = [lresp EXCEPT ![r] =
                   [status |-> 200, liked |-> lloc[r].liked,
                    count |-> LikesCount(lloc[r].post),
                    rows |-> Cardinality({l \in likes' : l.post = lloc[r].post})]]
    /\ lpc' = [lpc EXCEPT ![r] = "done"]
    /\ UNCHANGED <<likeSeq, lreq, lloc, lstarted, overlapped, initLikes, likeFrame>>

LikeIdle ==
    /\ initLikes = {}
    /\ likes = {}
    /\ likeSeq = 1
    /\ lpc = [r \in LikeReqs |-> "new"]
    /\ lreq = [r \in LikeReqs |-> NoReq]
    /\ lloc = [r \in LikeReqs |-> NoLoc]
    /\ lresp = [r \in LikeReqs |-> NoResp]
    /\ lstarted = 0
    /\ overlapped = {}

----------------------------------------------------------------------------
(* The paywall of the post detail view, and process_subscription *)

SubscriptionDays == 30
PreviewLen == 200

NoDate == -1
NoProfile == [exists |-> FALSE, is_subscribed |-> FALSE, subscription_end_date |-> NoDate]
NoView == [status |-> 0, post |-> 0, viewer |-> "none", is_premium |-> FALSE,
           paywall |-> FALSE, preview |-> <<>>]
NoOp == [kind |-> "none", user |-> "none", day |-> 0, prior |-> NoProfile]

\* The posts the detail view is asked for: free and premium, by either
\* user, with bodies shorter than, as long as and longer than the preview.
ViewPosts ==
    { PostRow(1, <<"a">>, "u1", "free", Text(5), 0),
      PostRow(2, <<"b">>, "u1", "premium", Text(205), 0),
      PostRow(3, <<"c">>, "u2", "premium", Text(200), 0),
      PostRow(4, <<"d">>, "u2", "free", Text(205), 0),
      PostRow(5, <<"e">>, "u2", "premium", Text(7), 0) }

ViewSlugs == { <<"a">>, <<"b">>, <<"c">>, <<"d">>, <<"e">>, <<"z", "z">> }

\* The posts viewed while subscriptions run out: premium ones by either
\* user and a free one.
SubPosts ==
    { PostRow(1, <<"a">>, "u1", "premium", Text(5), 0),
      PostRow(2, <<"b">>, "u2", "premium", Text(7), 0),
      PostRow(3, <<"c">>, "u1", "free", Text(9), 0) }

SubSlugs == { <<"a">>, <<"b">>, <<"c">>, <<"z", "z">> }

\* The profiles a user may have before the first request: none (the
\* post_save receiver listens to auth.User, not to this User), a fresh one,
\* and ones saved through ProfileAdmin.
StartProfiles ==
    { NoProfile,
      [exists |-> TRUE, is_subscribed |-> FALSE, subscription_end_date |-> NoDate],
      [exists |-> TRUE, is_subscribed |-> TRUE, subscription_end_date |-> NoDate],
      [exists |-> TRUE, is_subscribed |-> TRUE,
       subscription_end_date |-> SubscriptionDays + 15] }

Min(a, b) == IF a < b THEN a ELSE b

\* request.is_premium_user, set per request from the user's profile:
\* is_subscribed and subscription_end_date >= today.
IsPremiumUser(u) ==
    /\ profiles[u].exists
    /\ profiles[u].is_subscribed
    /\ profiles[u].subscription_end_date # NoDate
    /\ profiles[u].subscription_end_date >= today

PaywallIgnoresAuthor(post, viewer, is_premium) ==
    post.access_level = "premium" /\ ~is_premium

\* post.access_level == 'premium' and not is_premium and post.author != self.request.user
Paywall(post, viewer, is_premium) ==
    post.access_level = "premium" /\ ~is_premium /\ post.author # viewer

\* post.body[:200] + '...'
Preview(body) == SubSeq(body, 1, Min(PreviewLen, Len(body))) \o <<".", ".", ".">>

\* PostDetailView.get_context_data for a logged-in viewer.
ViewPost(viewer, slug) ==
    /\ LET got == GetObjectOr404(slug) IN
       IF got.status # 200
       THEN view' = [NoView EXCEPT !.status = got.status, !.viewer = viewer]
       ELSE LET post == CHOOSE p \in posts : p.id = got.post
                is_premium == IsPremiumUser(viewer)
            IN  view' = [status |-> 200, post |-> post.id, viewer |-> viewer,
                         is_premium |-> is_premium,
                         paywall |-> Paywall(post, viewer, is_premium),
                         preview |-> IF Paywall(post, viewer, is_premium)
                                     THEN Preview(post.body) ELSE <<>>]
    /\ lastOp' = NoOp
    /\ UNCHANGED <<today, profiles, actDay, viewFrame>>

EndDateLonger(prior) == today + SubscriptionDays + SubscriptionDays

EndDateCumulative(prior) ==
    IF prior.subscription_end_date # NoDate /\ prior.subscription_end_date > today
    THEN prior.subscription_end_date + SubscriptionDays
    ELSE today + SubscriptionDays

\* date.today() + timedelta(days=30), whatever the profile held
EndDate(prior) == today + SubscriptionDays

\* process_subscription: Profile.objects.get_or_create, then the two
\* assignments and profile.save().
ProcessSubscription(u) ==
    /\ profiles' = [profiles EXCEPT ![u] =
                      [exists |-> TRUE, is_subscribed |-> TRUE,
                       subscription_end_date |-> EndDate(profiles[u])]]
    /\ lastOp' = [kind |-> "activate", user |-> u, day |-> today, prior |-> profiles[u]]
    /\ actDay' = [actDay EXCEPT ![u] = today]
    /\ view' = NoView
    /\ UNCHANGED <<today, viewFrame>>

\* A day passes.
Tick ==
    /\ today < MaxDay
    /\ today' = today + 1
    /\ view' = NoView
    /\ lastOp' = NoOp
    /\ UNCHANGED <<profiles, actDay, viewFrame>>

ViewIdle ==
    /\ profiles = [u \in Users |-> NoProfile]
    /\ view = NoView
    /\ lastOp = NoOp
    /\ actDay = [u \in Users |-> NoDate]

----------------------------------------------------------------------------
(* add_comment and the channel layer *)

CommentReqs == 1..NumCommentReqs

\* The viewer's connection.
Conns == {"k1"}

\* The bodies posted: blank, and one with a trailing blank to strip.
Bodies == { <<" ">>, <<"y", " ">> }

\* The slugs add_comment is requested with: two posts and no post.
CommentSlugs == { <<"a">>, <<"b">>, <<"z", "z">> }

\* The slugs of the detail pages a connection is opened from.
JoinSlugs == { <<"a">>, <<"b">> }

NoCommentReq == [user |-> "none", slug |-> <<>>, body |-> <<>>, parent |-> 0]
NoCommentLoc == [post |-> 0, cid |-> 0, status |-> 0]

\* User.username
Username(u) == IF u = "u1" THEN "alice" ELSE "bob"

RECURSIVE StripLeft(_)
StripLeft(b) == IF b # <<>> /\ Head(b) = " " THEN StripLeft(Tail(b)) ELSE b

RECURSIVE StripRight(_)
StripRight(b) ==
    IF b # <<>> /\ b[Len(b)] = " " THEN StripRight(SubSeq(b, 1, Len(b) - 1)) ELSE b

\* The form's CharField strips the value it cleans.
Strip(b) == StripRight(StripLeft(b))

FormAcceptsAll(body) == TRUE

\* CommentForm(request.POST).is_valid(): fields = ['body'], a required field.
FormIsValid(body) == Strip(body) # <<>>

\* f'comments_{slug}'
GroupName(slug) == <<"comments_">> \o slug

\* The event add_comment hands to group_send.
CommentEvent(c) ==
    [type |-> "comment_message",
     comment |-> [author |-> Username(c.author), body |-> c.body,
                  created_date |-> c.created_date]]

\* The request arrives: the post is looked up and the form validated.
CommentStart(r, u, slug, body, parent) ==
    /\ cpc[r] = "new"
    /\ r = cstarted + 1
    /\ cstarted' = r
    /\ creq' = [creq EXCEPT ![r] =
                  [user |-> u, slug |-> slug, body |-> body, parent |-> parent]]
    /\ LET got == GetObjectOr404(slug) IN
       IF got.status # 200
       THEN /\ cpc' = [cpc EXCEPT ![r] = "done"]
            /\ cloc' = [cloc EXCEPT ![r].status = got.status]
       ELSE IF ~FormIsValid(body)
       THEN /\ cpc' = [cpc EXCEPT ![r] = "done"]
            /\ cloc' = [cloc EXCEPT ![r].post = got.post, ![r].status = 302]
       ELSE /\ cpc' = [cpc EXCEPT ![r] = "save"]
            /\ cloc' = [cloc EXCEPT ![r].post = got.post]
    /\ UNCHANGED <<comments, commentSeq, groups, inbox, published, commentFrame>>

\* c = form.save(commit=False); c.post=post; c.author=request.user; c.save()
\* The form has no parent field: the row's parent stays null.
CommentSave(r) ==
    /\ cpc[r] = "save"
    /\ comments' = comments \cup
          {[id |-> commentSeq, post |-> cloc[r].post, author |-> creq[r].user,
            body |-> Strip(creq[r].body), created_date |-> today, parent |-> 0]}
    /\ commentSeq' = commentSeq + 1
    /\ cloc' = [cloc EXCEPT ![r].cid = commentSeq]
    /\ cpc' = [cpc EXCEPT ![r] = "send"]
    /\ UNCHANGED <<creq, cstarted, groups, inbox, published, commentFrame>>

\* async_to_sync(cl.group_send)(f'comments_{slug}', {...}); redirect.
\* The channel layer hands the event to every connection in the group.
\* cid, req, post and members are history.
CommentSend(r) ==
    /\ cpc[r] = "send"
    /\ LET c == CHOOSE x \in comments : x.id = cloc[r].cid
           name == GroupName(creq[r].slug)
           event == CommentEvent(c)
           post == CHOOSE p \in posts : p.id = c.post
       IN  /\ published' = Append(published,
                 [group |-> name, event |-> event, cid |-> c.id, req |-> r,
                  post |-> c.post,
                  members |-> {k \in Conns : k \in groups[<<"comments_">> \o post.slug]}])
           /\ inbox' = [k \in Conns |->
                          IF name \in DOMAIN groups /\ k \in groups[name]
                          THEN Append(inbox[k], [event |-> event, cid |-> c.id])
                          ELSE inbox[k]]
    /\ cpc' = [cpc EXCEPT ![r] = "done"]
    /\ cloc' = [cloc EXCEPT ![r].status = 302]
    /\ UNCHANGED <<comments, commentSeq, creq, cstarted, groups, commentFrame>>

\* A viewer's connection joins the group of the post it shows.
Join(k, slug) ==
    /\ k \notin groups[GroupName(slug)]
    /\ groups' = [groups EXCEPT ![GroupName(slug)] = @ \cup {k}]
    /\ UNCHANGED <<comments, commentSeq, cpc, creq, cloc, cstarted, inbox, published,
                   commentFrame>>

\* The connection closes and leaves the group.
Leave(k, slug) ==
    /\ k \in groups[GroupName(slug)]
    /\ groups' = [groups EXCEPT ![GroupName(slug)] = @ \ {k}]
    /\ UNCHANGED <<comments, commentSeq, cpc, creq, cloc, cstarted, inbox, published,
                   commentFrame>>

CommentIdle ==
    /\ comments = {}
    /\ commentSeq = 1
    /\ cpc = [r \in CommentReqs |-> "new"]
    /\ creq = [r \in CommentReqs |-> NoCommentReq]
    /\ cloc = [r \in CommentReqs |-> NoCommentLoc]
    /\ cstarted = 0
    /\ groups = [g \in {GroupName(p.slug) : p \in SeedPosts} |-> {}]
    /\ inbox = [k \in Conns |-> <<>>]
    /\ published = <<>>

----------------------------------------------------------------------------
(* PostCreateView *)

\* User.role
Role(u) == IF u = "u1" THEN "author" ELSE "reader"

TitleChars == {"A", "a", " ", "!", "-"}

Titles == UNION {[1..n -> TitleChars] : n \in 1..MaxTitleLen}

NoResult == [status |-> 0, slug |-> <<>>, taken |-> FALSE]

Lower(c) == IF c = "A" THEN "a" ELSE c

\* What [^\w\s-] leaves in place.
Kept(c) == c \in {"a", "A", "_", " ", "-"}

IsSep(c) == c \in {" ", "-"}

RECURSIVE DropSeps(_)
DropSeps(t) == IF t # <<>> /\ IsSep(Head(t)) THEN DropSeps(Tail(t)) ELSE t

\* re.sub(r'[-\s]+', '-', value)
RECURSIVE Collapse(_)
Collapse(t) ==
    IF t = <<>> THEN <<>>
    ELSE IF IsSep(Head(t)) THEN <<"-">> \o Collapse(DropSeps(Tail(t)))
    ELSE <<Head(t)>> \o Collapse(Tail(t))

IsEdge(c) == c \in {"-", "_"}

RECURSIVE StripEdgesLeft(_)
StripEdgesLeft(t) ==
    IF t # <<>> /\ IsEdge(Head(t)) THEN StripEdgesLeft(Tail(t)) ELSE t

RECURSIVE StripEdgesRight(_)
StripEdgesRight(t) ==
    IF t # <<>> /\ IsEdge(t[Len(t)])
    THEN StripEdgesRight(SubSeq(t, 1, Len(t) - 1)) ELSE t

\* django.utils.text.slugify: lower-case, drop what is neither a word
\* character, a blank nor a hyphen, turn each run of blanks and hyphens into
\* one hyphen, strip hyphens and underscores from both ends.
Slugify(title) ==
    LET lowered == [i \in 1..Len(title) |-> Lower(title[i])]
        kept == SelectSeq(lowered, Kept)
    IN  StripEdgesRight(StripEdgesLeft(Collapse(kept)))

\* The fields of PostForm.Meta.
PostFormFields ==
    {"title", "excerpt", "body", "featured_image", "category", "tags", "status",
     "access_level"}

\* A model form validates unique_for_date only when neither the field nor
\* its date field is left out of the form.
UniqueForDateValidated == {"slug", "publish_date"} \subseteq PostFormFields

\* Whether a post of this slug is published on this date already.
SlugTaken(slug, date) ==
    \E p \in posts : p.slug = slug /\ p.publish_date = date

\* PostCreateView: test_func, the form's validation, then form_valid, which
\* sets the author and the slug and saves. publish_date defaults to now.
PostCreate(u, title, access) ==
    /\ Cardinality(posts) < MaxPosts
    /\ IF Role(u) \notin {"author", "admin"}
       THEN /\ presult' = [NoResult EXCEPT !.status = 403]
            /\ UNCHANGED <<posts, postSeq>>
       ELSE IF Strip(title) = <<>>
       THEN /\ presult' = [NoResult EXCEPT !.status = 200]
            /\ UNCHANGED <<posts, postSeq>>
       ELSE LET slug == Slugify(Strip(title)) IN
            IF UniqueForDateValidated /\ SlugTaken(slug, today)
            THEN /\ presult' = [status |-> 200, slug |-> slug, taken |-> TRUE]
                 /\ UNCHANGED <<posts, postSeq>>
            ELSE /\ posts' = posts \cup
                       {[id |-> postSeq, title |-> Strip(title), slug |-> slug,
                         author |-> u, access_level |-> access, body |-> Text(3),
                         publish_date |-> today]}
                 /\ postSeq' = postSeq + 1
                 /\ presult' = [status |-> 302, slug |-> slug,
                                taken |-> SlugTaken(slug, today)]
    /\ UNCHANGED postFrame

PostIdle ==
    /\ postSeq = 1
    /\ presult = NoResult

----------------------------------------------------------------------------
(* Specifications *)

LikeInit ==
    /\ posts = SeedPosts
    /\ today = 0
    /\ ViewIdle
    /\ CommentIdle
    /\ PostIdle
    /\ initLikes \in { {}, {[id |-> 1, post |-> 1, user |-> "u1"]} }
    /\ likes = initLikes
    /\ likeSeq = Cardinality(initLikes) + 1
    /\ lpc = [r \in LikeReqs |-> "new"]
    /\ lreq = [r \in LikeReqs |-> NoReq]
    /\ lloc = [r \in LikeReqs |-> NoLoc]
    /\ lresp = [r \in LikeReqs |-> NoResp]
    /\ lstarted = 0
    /\ overlapped = {}

LikeNext ==
    \/ \E r \in LikeReqs, u \in Users, slug \in LikeSlugs : LikeStart(r, u, slug)
    \/ \E r \in LikeReqs : LikeGet(r)
    \/ \E r \in LikeReqs : LikeCreate(r)
    \/ \E r \in LikeReqs : LikeReget(r)
    \/ \E r \in LikeReqs : LikeDelete(r)
    \/ \E r \in LikeReqs : LikeRespond(r)

LikeSpec == LikeInit /\ [][LikeNext]_vars

\* The detail view on one day, over posts of every kind.
PaywallInit ==
    /\ posts = ViewPosts
    /\ today = 0
    /\ profiles \in [Users -> StartProfiles]
    /\ view = NoView
    /\ lastOp = NoOp
    /\ actDay = [u \in Users |-> NoDate]
    /\ LikeIdle
    /\ CommentIdle
    /\ PostIdle

PaywallNext ==
    \/ \E u \in Users, slug \in ViewSlugs : ViewPost(u, slug)
    \/ \E u \in Users : ProcessSubscription(u)

PaywallSpec == PaywallInit /\ [][PaywallNext]_vars

\* Subscriptions over the days.
SubInit ==
    /\ posts = SubPosts
    /\ today = 0
    /\ profiles \in [Users -> StartProfiles]
    /\ view = NoView
    /\ lastOp = NoOp
    /\ actDay = [u \in Users |-> NoDate]
    /\ LikeIdle
    /\ CommentIdle
    /\ PostIdle

SubNext ==
    \/ \E u \in Users, slug \in SubSlugs : ViewPost(u, slug)
    \/ \E u \in Users : ProcessSubscription(u)
    \/ Tick

SubSpec == SubInit /\ [][SubNext]_vars

CommentInit ==
    /\ posts = SeedPosts
    /\ today = 0
    /\ LikeIdle
    /\ ViewIdle
    /\ CommentIdle
    /\ PostIdle

CommentNext ==
    \/ \E r \in CommentReqs, u \in Users, slug \in CommentSlugs, body \in Bodies,
          parent \in {0} \cup {c.id : c \in comments} :
          CommentStart(r, u, slug, body, parent)
    \/ \E r \in CommentReqs : CommentSave(r)
    \/ \E r \in CommentReqs : CommentSend(r)
    \/ \E k \in Conns, slug \in JoinSlugs : Join(k, slug)
    \/ \E k \in Conns, slug \in JoinSlugs : Leave(k, slug)

CommentSpec == CommentInit /\ [][CommentNext]_vars

PostInit ==
    /\ posts = {}
    /\ today = 0
    /\ LikeIdle
    /\ ViewIdle
    /\ CommentIdle
    /\ PostIdle

PostNext ==
    \/ \E u \in Users, title \in Titles, access \in {"free", "premium"} :
          PostCreate(u, title, access)
    \/ (today < MaxPostDay /\ Tick)

PostSpec == PostInit /\ [][PostNext]_vars

----------------------------------------------------------------------------
(* Claims about like_post *)

Pair(r) == <<lreq[r].user, lreq[r].slug>>

\* The requests that reached the Like table for the same user and slug as r.
SamePair(r) == {q \in LikeReqs : lloc[q].post # 0 /\ Pair(q) = Pair(r)}

InitPresent(r) ==
    \E l \in initLikes : l.post = lloc[r].post /\ l.user = lreq[r].user

\* C1: in every reachable state the Like table holds at most one row per
\* (post, user) pair, and a request whose INSERT the constraint rejected
\* holds no row of its own and has not reported a like.
C1_OneLikePerPair ==
    /\ \A l1, l2 \in likes :
          (l1.post = l2.post /\ l1.user = l2.user) => l1 = l2
    /\ \A r \in LikeReqs :
          lpc[r] = "reget" => (lloc[r].like = 0 /\ ~lloc[r].liked)

\* C1 witness: an INSERT was rejected while another request's row for the
\* same pair is in the table.
C1_Witness ==
    \E r \in LikeReqs :
        /\ lpc[r] = "reget"
        /\ LikesOf(lloc[r].post, lreq[r].user) # {}

\* C2: on a (post, user) pair no two requests ever overlapped on, the k-th
\* completed call returns liked = TRUE exactly when an even number of calls
\* on the pair came before it (odd, if a Like existed at the start), and
\* every call's count is the number of Like rows of the post at its return.
C2_ToggleAlternates ==
    \A r \in LikeReqs :
        (lpc[r] = "done" /\ lresp[r].status = 200) =>
            /\ lresp[r].count = lresp[r].rows
            /\ Pair(r) \notin overlapped =>
                  LET before == Cardinality({q \in SamePair(r) : q < r}) IN
                  lresp[r].liked = ((before % 2 = 0) # InitPresent(r))

\* C2 witness: three successive calls on one pair have returned true, false,
\* true, the last with a count of 2.
C2_Witness ==
    /\ \A r \in LikeReqs : lpc[r] = "done" /\ lresp[r].status = 200
    /\ Pair(1) = Pair(2) /\ Pair(2) = Pair(3)
    /\ Pair(1) \notin overlapped
    /\ lresp[1].liked /\ ~lresp[2].liked /\ lresp[3].liked
    /\ lresp[3].count = 2 /\ initLikes # {}

\* C3: two calls by one user on one post, and nothing else, leave the pair's
\* like state and the post's like count as they were at the start, and one
\* of the two returned liked = true and the other liked = false, under
\* every interleaving of their steps.
C3_ConcurrentTogglesSerialize ==
    ( /\ lstarted = 2
      /\ lpc[1] = "done" /\ lpc[2] = "done"
      /\ lloc[1].post # 0
      /\ Pair(1) = Pair(2) ) =>
        /\ lresp[1].status = 200 /\ lresp[2].status = 200
        /\ lresp[1].liked # lresp[2].liked
        /\ (LikesOf(lloc[1].post, lreq[1].user) # {}) = InitPresent(1)
        /\ LikesCount(lloc[1].post)
             = Cardinality({l \in initLikes : l.post = lloc[1].post})

----------------------------------------------------------------------------
(* Claims about comments *)

CommentRow(id) == CHOOSE c \in comments : c.id = id

Blank(body) == \A i \in 1..Len(body) : body[i] = " "

NamesOnePost(slug) == Cardinality({p \in posts : p.slug = slug}) = 1

PublishesOf(cid) == {i \in 1..Len(published) : published[i].cid = cid}

\* C7: every comment with a parent has a parent on its own post, and an
\* add_comment request naming a parent that belongs to another post has
\* written no comment.
C7_ParentOnSamePost ==
    /\ \A c \in comments :
          c.parent # 0 =>
              \E q \in comments : q.id = c.parent /\ q.post = c.post
    /\ \A r \in CommentReqs :
          ( /\ creq[r].parent # 0
            /\ cloc[r].post # 0
            /\ CommentRow(creq[r].parent).post # cloc[r].post ) =>
              cloc[r].cid = 0

\* C8: a finished add_comment request that saved a comment made exactly one
\* group_send for it, and one that has saved but not sent yet made none;
\* every group_send is for a comment in the table, goes to the group of
\* that comment's post and carries its author's username and its body; a
\* connection in that group at the send holds exactly one event for the
\* comment, that event; a request with a blank body or a slug that names
\* no single post saved nothing and sent nothing; and the table holds
\* exactly the comments the requests saved.
C8_OnePublishPerComment ==
    /\ \A r \in CommentReqs :
          /\ (cpc[r] = "done" /\ cloc[r].cid # 0) =>
                Cardinality(PublishesOf(cloc[r].cid)) = 1
          /\ cpc[r] = "send" => PublishesOf(cloc[r].cid) = {}
          /\ (cpc[r] # "new" /\ (Blank(creq[r].body) \/ ~NamesOnePost(creq[r].slug))) =>
                /\ cpc[r] = "done"
                /\ cloc[r].cid = 0
                /\ \A i \in 1..Len(published) : published[i].req # r
    /\ \A i \in 1..Len(published) :
          LET e == published[i] IN
          /\ \E c \in comments : c.id = e.cid
          /\ LET c == CommentRow(e.cid)
                 post == CHOOSE p \in posts : p.id = c.post
             IN  /\ e.group = <<"comments_">> \o post.slug
                 /\ e.event.comment.author = Username(c.author)
                 /\ e.event.comment.body = c.body
                 /\ cloc[e.req].cid = c.id
          /\ \A k \in e.members :
                /\ Cardinality({j \in 1..Len(inbox[k]) : inbox[k][j].cid = e.cid}) = 1
                /\ \A j \in 1..Len(inbox[k]) :
                      inbox[k][j].cid = e.cid => inbox[k][j].event = e.event
    /\ \A c \in comments :
          \E r \in CommentReqs :
              /\ cloc[r].cid = c.id
              /\ c.post = cloc[r].post
              /\ c.author = creq[r].user
              /\ ~Blank(c.body)
    /\ Cardinality(comments) = Cardinality({r \in CommentReqs : cloc[r].cid # 0})

\* C8 witness: user u1's comment on post a was sent while the connection
\* was in the group of a, which holds the one event, and another request
\* was turned down for its blank body.
C8_Witness ==
    \E r, q \in CommentReqs :
        /\ cpc[r] = "done" /\ cloc[r].cid # 0 /\ creq[r].user = "u1"
        /\ \E i \in 1..Len(published) :
              /\ published[i].cid = cloc[r].cid
              /\ published[i].members = {"k1"}
              /\ published[i].event.comment.author = "alice"
              /\ published[i].event.comment.body = <<"y">>
        /\ Len(inbox["k1"]) = 1
        /\ cpc[q] = "done" /\ cloc[q].cid = 0 /\ cloc[q].status = 302

\* C9: two comments of one post are published in the order their rows were
\* saved.
C9_PublishedInCommitOrder ==
    \A i, j \in 1..Len(published) :
        (i < j /\ published[i].post = published[j].post) =>
            published[i].cid < published[j].cid
----------------------------------------------------------------------------
(* Claims about the paywall and the subscription *)

\* C4: a rendered post is paywalled exactly when the viewer is not its
\* author, its access level is not free and the viewer's premium flag is
\* off; a paywalled context carries the first 200 characters of the body
\* followed by three dots, any other context none.
C4_PaywallRule ==
    view.status = 200 =>
        LET post == CHOOSE p \in posts : p.id = view.post
            full == \/ view.viewer = post.author
                    \/ post.access_level = "free"
                    \/ view.is_premium
            n == IF Len(post.body) > 200 THEN 200 ELSE Len(post.body)
        IN  /\ view.paywall = ~full
            /\ full => view.preview = <<>>
            /\ ~full =>
                 /\ Len(view.preview) = n + 3
                 /\ \A i \in 1..n : view.preview[i] = post.body[i]
                 /\ \A j \in 1..3 : view.preview[n + j] = "."

\* C4 witness: a paywalled view of a body longer than 200 characters.
C4_Witness ==
    /\ view.status = 200 /\ view.paywall
    /\ Len((CHOOSE p \in posts : p.id = view.post).body) > 200
    /\ Len(view.preview) = 203

C6_ActivateResets ==
    lastOp.kind = "activate" =>
        /\ today = lastOp.day
        /\ profiles[lastOp.user] =
             [exists |-> TRUE, is_subscribed |-> TRUE,
              subscription_end_date |-> lastOp.day + 30]

\* C6 witness: process_subscription has run on a subscription that was
\* still active and due to expire later than 30 days from the call.
C6_Witness ==
    /\ lastOp.kind = "activate"
    /\ lastOp.prior.is_subscribed
    /\ lastOp.prior.subscription_end_date > lastOp.day + 30

----------------------------------------------------------------------------
(* Claims about post creation *)

\* C10: no two posts share a slug on one publish date, and a create request
\* whose slug a post of the same date holds already has not been saved.
C10_SlugUniquePerDate ==
    /\ \A p, q \in posts :
          (p.slug = q.slug /\ p.publish_date = q.publish_date) => p.id = q.id
    /\ presult.taken => presult.status # 302

====
